---- MODULE Spec2Model ----
(***************************************************************************)
(* NotiaBet mobile client: the ApiService of services/api.ts (mock-mode    *)
(* flag, getPredictions, checkHealth, optimizeStrategy), the wall clock,   *)
(* the home screen and its overlapping fetches, the date strip, the day    *)
(* keys in America/Bogota and the odds arithmetic.                         *)
(*                                                                         *)
(* JavaScript values are tagged records (field t) so that values of        *)
(* different JavaScript types can be compared.  Instants are minutes since *)
(* the Unix epoch (the source counts milliseconds; 60000 ms = 1 minute).   *)
(* A 'YYYY-MM-DD' string is the tuple <<year, month, day>> of its parts,   *)
(* an ISO timestamp the tuple <<year, month, day, hour, minute>>.          *)
(*                                                                         *)
(* calls holds one record per open call; lastSetMock (the last argument of *)
(* setMockMode), lastFallback (how the latest call that was read came to   *)
(* return the sample list) and applied (the day of the fetch that wrote    *)
(* the list on display) record history for the properties only.            *)
(*                                                                         *)
(* Spec and LiveSpec run the client alone, HomeSpec the home screen over   *)
(* it, CalcSpec the pure functions on arguments drawn by CalcInit.         *)
(***************************************************************************)
EXTENDS Integers, Sequences, FiniteSets, TLC

VARIABLES useMock, now, calls, lastSetMock, lastFallback,
          selectedDate, allPredictions, loading, refreshing, fetches, applied,
          gameStatus, bankrollText, sniperLoading, strategyData, optimization, lastAlert,
          inp, out

\* the state of the home screen; applied records history for the properties
screen == <<selectedDate, allPredictions, loading, refreshing, fetches, applied>>

\* the service behind the home screen: how far the games it reports have got
service == <<gameStatus>>

\* the state of the strategy screen (bankroll is bankrollText here and loading
\* is sniperLoading), its call of optimizeStrategy, and the last alert it raised
sniper == <<bankrollText, sniperLoading, strategyData, optimization, lastAlert>>

\* the arguments and the result of one evaluation of a pure function
calc == <<inp, out>>

vars == <<useMock, now, calls, lastSetMock, lastFallback, screen, service, sniper, calc>>

\* ------------------------------------------------------------------------
\* Bounds of the model
\* ------------------------------------------------------------------------
\* number of calls open at once: pending, or returned and not yet read
MaxCalls == 1
\* largest count field a response body carries
MaxCount == 2
\* number of clock steps taken after module load
MaxTicks == 1
\* number of fetchData calls of the home screen suspended at once
MaxFetches == 3
\* how many entries before today the user taps on the date strip
MaxShift == 1
\* start times of games: so many steps of StartStep minutes around the load time
MaxStartSteps == 2
StartStep == 360
\* clock readings of the date strip: so many steps of TodayStep minutes around
\* the load time and around a clock change of the device's zone
MaxTodaySteps == 1
TodayStep == 90
\* largest American odds, either sign
MaxOdds == 200
\* distance between two model probabilities, in tenths of a percent point
ProbStep == 20
\* largest winner confidence, in tenths of a percent point
MaxConfidence == 1000
\* largest score of a side
MaxScore == 1
\* largest number of predictions in a batch that is sorted
MaxBatch == 3
\* largest number of characters typed into the bankroll field
MaxTextLen == 5
\* module load time: 2026-01-17 04:30 UTC = 2026-01-16 23:30 in Bogota
StartMinute == 29477070
\* length of one clock step, in minutes
TickMinutes == 60

CallIds == 1 .. MaxCalls

\* ------------------------------------------------------------------------
\* JavaScript values
\* ------------------------------------------------------------------------
Undefined == [t |-> "undefined"]
Null == [t |-> "null"]
Str(s) == [t |-> "string", s |-> s]
Arr(v) == [t |-> "array", v |-> v]
Num(n) == [t |-> "number", n |-> n]
EmptyString == Str(<<>>)

\* JavaScript truthiness of a value, as `if (date)` and `a && b` read it
Truthy(x) ==
    CASE x.t = "undefined" -> FALSE
      [] x.t = "null" -> FALSE
      [] x.t = "string" -> x.s # <<>>
      [] x.t = "number" -> x.n # 0
      [] OTHER -> TRUE

\* ------------------------------------------------------------------------
\* Day keys (HomeScreen.tsx getTodayKey)
\* ------------------------------------------------------------------------
\* America/Bogota is UTC-5 all year (no daylight saving time)
BogotaOffsetMinutes == 300

\* floor division for a possibly negative numerator
FloorDiv(a, b) == IF a >= 0 THEN a \div b ELSE -(((-a) + b - 1) \div b)

\* proleptic Gregorian date <<y, m, d>> of a day number counted from 1970-01-01
CivilFromDays(z0) ==
    LET z == z0 + 719468
        era == FloorDiv(z, 146097)
        doe == z - era * 146097
        yoe == (doe - (doe \div 1460) + (doe \div 36524) - (doe \div 146096)) \div 365
        doy == doe - (365 * yoe + (yoe \div 4) - (yoe \div 100))
        mp == (5 * doy + 2) \div 153
        d == doy - ((153 * mp + 2) \div 5) + 1
        m == IF mp < 10 THEN mp + 3 ELSE mp - 9
        y == yoe + era * 400 + (IF m <= 2 THEN 1 ELSE 0)
    IN  <<y, m, d>>

\* the day number, counted from 1970-01-01, of the Gregorian date <<y, m, d>>
DaysFromCivil(ymd) ==
    LET y == IF ymd[2] <= 2 THEN ymd[1] - 1 ELSE ymd[1]
        era == FloorDiv(y, 400)
        yoe == y - era * 400
        mp == IF ymd[2] > 2 THEN ymd[2] - 3 ELSE ymd[2] + 9
        doy == ((153 * mp + 2) \div 5) + ymd[3] - 1
        doe == yoe * 365 + (yoe \div 4) - (yoe \div 100) + doy
    IN  era * 146097 + doe - 719468

\* date.toLocaleDateString('en-CA', {timeZone: 'America/Bogota', ...})
toLocaleDateString(instant) ==
    Str(CivilFromDays(FloorDiv(instant - BogotaOffsetMinutes, 1440)))

getTodayKey == toLocaleDateString(now)

\* ------------------------------------------------------------------------
\* Time zones: the zone named in the timeZone option and the device's own
\* ------------------------------------------------------------------------
\* a zone has one offset (local = UTC + offset, in minutes) before the instant
\* `at` and one from it on; a zone without a clock change has the two equal
Zone(before, after, at) == [t |-> "zone", before |-> before, after |-> after, at |-> at]

Bogota == Zone(-BogotaOffsetMinutes, -BogotaOffsetMinutes, 0)
\* America/New_York around 2026-11-01 06:00 UTC, when 02:00 EDT becomes 01:00 EST
NewYorkAutumn == Zone(-240, -300, 29891880)
\* America/New_York around 2026-03-08 07:00 UTC, when 02:00 EST becomes 03:00 EDT
NewYorkSpring == Zone(-300, -240, 29549220)
\* zones a device can be set to
DeviceZones == {Bogota, Zone(0, 0, 0), Zone(540, 540, 0), NewYorkAutumn, NewYorkSpring}

\* LocalTime(t) of ECMAScript: the wall clock of the zone at an instant
LocalTime(zone, instant) ==
    instant + (IF instant < zone.at THEN zone.before ELSE zone.after)

\* UTC(t) of ECMAScript: a wall-clock time that occurs twice or not at all is
\* read with the offset in force before the clock change
UTC(zone, local) ==
    LET early == local - zone.before
        late == local - zone.after
    IN  IF early < zone.at THEN early ELSE IF late >= zone.at THEN late ELSE early

\* date.getDate(): the day of the month on the device's wall clock
getDate(zone, instant) == CivilFromDays(FloorDiv(LocalTime(zone, instant), 1440))[3]

\* date.setDate(date.getDate() + i): i days later on the device's wall clock,
\* at the same time of day
setDate(zone, instant, i) == UTC(zone, LocalTime(zone, instant) + i * 1440)

\* date.toLocaleDateString('en-CA', {timeZone, year, month, day}): the
\* calendar date in the zone of the option, or in the device's zone without it
DateString(instant, timeZone, deviceZone) ==
    LET zone == IF timeZone = Undefined THEN deviceZone ELSE timeZone
    IN  Str(CivilFromDays(FloorDiv(LocalTime(zone, instant), 1440)))

\* ------------------------------------------------------------------------
\* DateStrip.tsx
\* ------------------------------------------------------------------------
\* a plausible slip: the key taken from the device's own calendar
formatDateKey_local(date, deviceZone) == DateString(date, Undefined, deviceZone)

formatDateKey(date, deviceZone) == DateString(date, Bogota, deviceZone)

\* the label of entry i: fixed words around today, else the weekday of the
\* device's calendar (day 0, 1970-01-01, was a Thursday)
dayName(zone, date, i) ==
    CASE i = 0 -> "today"
      [] i = 1 -> "TMW"
      [] i = -1 -> "YDA"
      [] OTHER -> <<"SUN", "MON", "TUE", "WED", "THU", "FRI", "SAT">>
                     [((FloorDiv(LocalTime(zone, date), 1440) + 4) % 7) + 1]

\* one entry of the strip, for the day i days from today on the device
DateEntry(today, deviceZone, selected, i) ==
    LET date == setDate(deviceZone, today, i)
        dateKey == formatDateKey(date, deviceZone)
    IN  [key |-> dateKey, dayName |-> dayName(deviceZone, date, i),
         dayNumber |-> getDate(deviceZone, date),
         active |-> (dateKey = selected), index |-> i + 7]

\* const dates = useMemo(...): for (let i = -7; i <= 2; i++) result.push(...)
dates(today, deviceZone, selected) ==
    [n \in 1 .. 10 |-> DateEntry(today, deviceZone, selected, n - 8)]

\* ------------------------------------------------------------------------
\* Predictions
\* ------------------------------------------------------------------------
\* probabilities and confidences are in tenths of a percent point;
\* an optional score is <<>> when absent and <<n>> when present
Prediction(home, away, winner, conf, homeOdds, awayOdds, start, status, hs, as) ==
    [home_team |-> home, away_team |-> away, predicted_winner |-> winner,
     winner_confidence |-> conf, home_odds |-> homeOdds, away_odds |-> awayOdds,
     start_time_utc |-> start, status |-> status,
     home_score |-> hs, away_score |-> as]

\* the sample list, built once when the module is loaded (loadTime = Date.now())
BuildMock(loadTime) ==
    << Prediction("Los Angeles Lakers", "Golden State Warriors", "Los Angeles Lakers",
                  585, -145, 125, loadTime + 60, "SCHEDULED", <<>>, <<>>),
       Prediction("Boston Celtics", "Miami Heat", "Boston Celtics",
                  721, -280, 230, loadTime - 120, "FINAL", <<112>>, <<108>>),
       Prediction("Denver Nuggets", "Phoenix Suns", "Phoenix Suns",
                  548, 115, -135, loadTime + 30, "LIVE", <<45>>, <<48>>) >>

\* a plausible slip: the sample list rebuilt on every use instead of once
MOCK_PREDICTIONS_rebuilt == Arr(BuildMock(now))

MOCK_PREDICTIONS == Arr(BuildMock(StartMinute))

\* predictions the service may send
ServerPredictions ==
    { Prediction("New York Knicks", "Chicago Bulls", "New York Knicks",
                 612, -160, 140, StartMinute + 90, "SCHEDULED", <<>>, <<>>),
      Prediction("Dallas Mavericks", "Utah Jazz", "Utah Jazz",
                 533, 105, -125, StartMinute - 30, "LIVE", <<20>>, <<24>>) }

\* the lists the service sends: empty, one game, two games latest first
ServerLists ==
    { <<>> } \cup { <<p>> : p \in ServerPredictions }
             \cup { pq \in ServerPredictions \X ServerPredictions :
                       pq[1].start_time_utc > pq[2].start_time_utc }

\* ------------------------------------------------------------------------
\* Wire contract: requests, responses, response bodies
\* ------------------------------------------------------------------------
Request(method, url, params, data) ==
    [method |-> method, url |-> url, params |-> params, data |-> data]

\* the settled state of the promise returned by this.client.get / post
NoResponse == [kind |-> "none", data |-> Undefined]
Fulfilled(data) == [kind |-> "ok", data |-> data]
\* axios rejects: the 60 s timeout, no connection, a status outside 2xx
Rejections == { [kind |-> k, data |-> Undefined] : k \in {"timeout", "network", "status"} }

PredictionsBody(count, predictions) ==
    [t |-> "object", count |-> count, predictions |-> predictions]

\* bodies of GET /api/predictions: well formed, count not matching the list,
\* predictions missing, a text body, a JSON null body
PredictionsBodies ==
    { PredictionsBody(Num(n), Arr(l)) : n \in 0 .. MaxCount, l \in ServerLists }
    \cup { PredictionsBody(Num(0), Undefined), Str(<<0>>), Null }

HealthBodies ==
    { [t |-> "object", status |-> s, model |-> "XGBoost"] : s \in {"healthy", "degraded"} }

Bankrolls == { Num(100), Num(250) }

StrategyBodies ==
    { [t |-> "object", strategy |-> "kelly", bankroll_used |-> 100, proposed_bets |-> k]
        : k \in 0 .. 1 }

BodiesFor(op) ==
    CASE op = "getPredictions" -> PredictionsBodies
      [] op = "checkHealth" -> HealthBodies
      [] op = "optimizeStrategy" -> StrategyBodies

\* getPredictions is called with no date, with null, with '' or with a day key
DateArgs ==
    { Undefined, Null, EmptyString }
    \cup { toLocaleDateString(StartMinute) }

\* ------------------------------------------------------------------------
\* Completion of an async function: its promise fulfils or rejects
\* ------------------------------------------------------------------------
Return(v) == [type |-> "return", value |-> v]
Throw == [type |-> "throw", value |-> Undefined]

\* ------------------------------------------------------------------------
\* State
\* ------------------------------------------------------------------------
NoFallback == [reason |-> "none", result |-> Undefined]

\* one record per open call of the exported functions; requests lists the
\* outbound requests the call has issued
IdleCall ==
    [op |-> "none", pc |-> "idle", requests |-> <<>>,
     response |-> NoResponse, settled |-> "pending", result |-> Undefined]

\* the client after its module is loaded
ApiInit ==
    /\ useMock = FALSE
    /\ now = StartMinute
    /\ calls = [c \in CallIds |-> IdleCall]
    /\ lastSetMock = "never"
    /\ lastFallback = NoFallback

\* the home screen before it is mounted
NoScreen ==
    /\ selectedDate = Undefined
    /\ allPredictions = <<>>
    /\ loading = TRUE
    /\ refreshing = FALSE
    /\ fetches = <<>>
    /\ applied = Undefined
    /\ gameStatus = "SCHEDULED"

\* no pure function under evaluation
NoInput == [fn |-> "none"]
NoOutput == [fn |-> "none"]
NoCalc == inp = NoInput /\ out = NoOutput

\* no call of optimizeStrategy is out
NoOptimization == [pc |-> "idle", amount |-> Undefined, response |-> NoResponse]

\* SniperScreen before the first press: useState('50000'), useState(false),
\* useState(null); the field's text is the tuple of its characters
NoSniper ==
    /\ bankrollText = <<"5", "0", "0", "0", "0">>
    /\ sniperLoading = FALSE
    /\ strategyData = Null
    /\ optimization = NoOptimization
    /\ lastAlert = "none"

Init == ApiInit /\ NoScreen /\ NoSniper /\ NoCalc

\* a new call takes the first free record
NextCall(c) ==
    /\ calls[c].pc = "idle"
    /\ \A d \in CallIds : d < c => calls[d].pc # "idle"

Started(c, op, requests) ==
    [calls[c] EXCEPT !.op = op, !.requests = requests]

\* ------------------------------------------------------------------------
\* ApiService.setMockMode
\* ------------------------------------------------------------------------
\* a plausible slip: the flag can be switched on but never off again
SetMockMode_sticky(enabled) ==
    /\ useMock' = (useMock \/ enabled)
    /\ lastSetMock' = IF enabled THEN "true" ELSE "false"
    /\ UNCHANGED <<now, calls, lastFallback, screen, service, sniper, calc>>

SetMockMode(enabled) ==
    /\ useMock' = enabled
    /\ lastSetMock' = IF enabled THEN "true" ELSE "false"
    /\ UNCHANGED <<now, calls, lastFallback, screen, service, sniper, calc>>

\* ------------------------------------------------------------------------
\* ApiService.getPredictions
\* ------------------------------------------------------------------------
\* a plausible slip: a missing date is replaced by today's key
PredictionsParams_today(date, sportsbook) ==
    [t |-> "object", sportsbook |-> sportsbook,
     date |-> IF Truthy(date) THEN date ELSE getTodayKey]

\* const params = { sportsbook }; if (date) params.date = date;
PredictionsParams(date, sportsbook) ==
    [t |-> "object", sportsbook |-> sportsbook,
     date |-> IF Truthy(date) THEN date ELSE Undefined]

\* the synchronous part of getPredictions, up to the await
GetPredictionsStart(c, date) ==
    IF useMock
    THEN [Started(c, "getPredictions", <<>>)
            EXCEPT !.pc = "done", !.settled = "fulfilled", !.result = MOCK_PREDICTIONS]
    ELSE [Started(c, "getPredictions",
                  << Request("GET", "/api/predictions", PredictionsParams(date, "fanduel"), Undefined) >>)
            EXCEPT !.pc = "awaiting"]

GetPredictions(c, date) ==
    /\ NextCall(c)
    /\ calls' = [calls EXCEPT ![c] = GetPredictionsStart(c, date)]
    /\ UNCHANGED <<useMock, now, lastSetMock, lastFallback, screen, service, sniper, calc>>

\* a plausible slip: the length test is missing, so an empty list is returned
GetPredictionsTry_nolength(response) ==
    IF response.kind # "ok"
    THEN Throw
    ELSE IF response.data.t \in {"null", "undefined"}
         THEN Throw
         ELSE LET predictions == IF response.data.t = "object"
                                 THEN response.data.predictions ELSE Undefined
              IN  IF Truthy(predictions)
                  THEN Return(predictions)
                  ELSE Return(MOCK_PREDICTIONS)

\* a plausible slip: the list comes back in another order
GetPredictionsTry_reversed(response) ==
    IF response.kind # "ok"
    THEN Throw
    ELSE IF response.data.t \in {"null", "undefined"}
         THEN Throw
         ELSE LET predictions == IF response.data.t = "object"
                                 THEN response.data.predictions ELSE Undefined
              IN  IF Truthy(predictions) /\ Len(predictions.v) > 0
                  THEN Return(Arr([i \in 1 .. Len(predictions.v) |->
                                      predictions.v[Len(predictions.v) + 1 - i]]))
                  ELSE Return(MOCK_PREDICTIONS)

\* the try block after the await: a rejected request throws, and so does
\* reading .predictions of a null body; a text body has no .predictions
GetPredictionsTry(response) ==
    IF response.kind # "ok"
    THEN Throw
    ELSE IF response.data.t \in {"null", "undefined"}
         THEN Throw
         ELSE LET predictions == IF response.data.t = "object"
                                 THEN response.data.predictions ELSE Undefined
              IN  IF Truthy(predictions) /\ Len(predictions.v) > 0
                  THEN Return(predictions)
                  ELSE Return(MOCK_PREDICTIONS)

\* a plausible slip: no catch block
GetPredictionsAfterAwait_nocatch(response) == GetPredictionsTry(response)

\* a plausible slip: the mock-mode flag is read again after the await
GetPredictionsAfterAwait_rereads(response) ==
    LET completion == GetPredictionsTry(response)
    IN  IF useMock \/ completion.type = "throw"
        THEN Return(MOCK_PREDICTIONS) ELSE completion

\* try { ... } catch { return MOCK_PREDICTIONS }
GetPredictionsAfterAwait(response) ==
    LET completion == GetPredictionsTry(response)
    IN  IF completion.type = "throw" THEN Return(MOCK_PREDICTIONS) ELSE completion

\* ------------------------------------------------------------------------
\* ApiService.checkHealth
\* ------------------------------------------------------------------------
CheckHealth(c) ==
    /\ NextCall(c)
    /\ calls' = [calls EXCEPT ![c] =
            [Started(c, "checkHealth",
                     << Request("GET", "/health", Undefined, Undefined) >>)
                EXCEPT !.pc = "awaiting"]]
    /\ UNCHANGED <<useMock, now, lastSetMock, lastFallback, screen, service, sniper, calc>>

\* a plausible slip: the catch block returns an empty object
CheckHealthAfterAwait_empty(response) ==
    IF response.kind = "ok" THEN Return(response.data) ELSE Return([t |-> "object"])

CheckHealthAfterAwait(response) ==
    IF response.kind = "ok" THEN Return(response.data) ELSE Return(Null)

\* ------------------------------------------------------------------------
\* ApiService.optimizeStrategy
\* ------------------------------------------------------------------------
OptimizeStrategy(c, bankroll) ==
    /\ NextCall(c)
    /\ calls' = [calls EXCEPT ![c] =
            [Started(c, "optimizeStrategy",
                     << Request("POST", "/api/strategy/optimize", Undefined,
                                [t |-> "object", bankroll |-> bankroll]) >>)
                EXCEPT !.pc = "awaiting"]]
    /\ UNCHANGED <<useMock, now, lastSetMock, lastFallback, screen, service, sniper, calc>>

\* a plausible slip: a failure is covered up with a locally made plan
OptimizeStrategyAfterAwait_fabricated(response) ==
    IF response.kind = "ok"
    THEN Return(response.data)
    ELSE Return([t |-> "object", strategy |-> "kelly", bankroll_used |-> 0, proposed_bets |-> 0])

OptimizeStrategyAfterAwait(response) ==
    IF response.kind = "ok" THEN Return(response.data) ELSE Return(Null)

\* ------------------------------------------------------------------------
\* The network and the event loop
\* ------------------------------------------------------------------------
InFlight(c) == calls[c].pc = "awaiting" /\ calls[c].response = NoResponse

Settle(c, response) ==
    /\ InFlight(c)
    /\ calls' = [calls EXCEPT ![c].response = response]
    /\ UNCHANGED <<useMock, now, lastSetMock, lastFallback, screen, service, sniper, calc>>

\* the service answers with a 2xx status
Respond(c) ==
    /\ InFlight(c)
    /\ \E body \in BodiesFor(calls[c].op) : Settle(c, Fulfilled(body))

\* no connection, or a status outside 2xx
Fail(c) == \E k \in {"network", "status"} : Settle(c, [kind |-> k, data |-> Undefined])

\* a plausible slip: the client is created without a timeout
Timeout_none(c) == FALSE /\ UNCHANGED vars

\* axios.create({ timeout: 60000 }): the request is rejected when the time is up
Timeout(c) == Settle(c, [kind |-> "timeout", data |-> Undefined])

AfterAwait(op, response) ==
    CASE op = "getPredictions" -> GetPredictionsAfterAwait(response)
      [] op = "checkHealth" -> CheckHealthAfterAwait(response)
      [] op = "optimizeStrategy" -> OptimizeStrategyAfterAwait(response)

\* the event loop resumes the function after its await
Resume(c) ==
    /\ calls[c].pc = "awaiting"
    /\ calls[c].response # NoResponse
    /\ LET completion == AfterAwait(calls[c].op, calls[c].response)
       IN  calls' = [calls EXCEPT ![c].pc = "done",
                                  ![c].settled = IF completion.type = "return"
                                                 THEN "fulfilled" ELSE "rejected",
                                  ![c].result = completion.value]
    /\ UNCHANGED <<useMock, now, lastSetMock, lastFallback, screen, service, sniper, calc>>

\* call c is a getPredictions call that has returned
Returned(c) == calls[c].op = "getPredictions" /\ calls[c].pc = "done"

\* the service answered call c with status 2xx and a body holding a predictions list
AnsweredList(c) ==
    /\ calls[c].op = "getPredictions"
    /\ calls[c].response.kind = "ok"
    /\ calls[c].response.data.t = "object"
    /\ calls[c].response.data.predictions.t = "array"

BodyList(c) == calls[c].response.data.predictions.v
BodyCount(c) == calls[c].response.data.count.n

\* which of the paths to `return MOCK_PREDICTIONS` a returned getPredictions
\* call took: mock mode, no games, or the catch block after a timeout or
\* after another rejection
FallbackReason(c) ==
    CASE calls[c].requests = <<>> -> "mock"
      [] calls[c].response.kind = "timeout" -> "timeout"
      [] calls[c].response.kind \in {"network", "status"} -> "transport"
      [] AnsweredList(c) /\ BodyList(c) = <<>> -> "empty"
      [] OTHER -> "none"

\* the caller reads the result of a finished call (const data = await ...);
\* the call's record is free again
Forget(c) ==
    /\ calls[c].pc = "done"
    /\ calls' = [calls EXCEPT ![c] = IdleCall]
    /\ lastFallback' = IF Returned(c) /\ FallbackReason(c) # "none"
                       THEN [reason |-> FallbackReason(c), result |-> calls[c].result]
                       ELSE lastFallback
    /\ UNCHANGED <<useMock, now, lastSetMock, screen, service, sniper, calc>>

\* ------------------------------------------------------------------------
\* HomeScreen (the version that asks the service for the selected day)
\* ------------------------------------------------------------------------
\* start_time_utc of a prediction that has none (null, undefined or '')
NoStartTime == -1

HasStartTime(p) == p.start_time_utc # NoStartTime

\* a plausible slip: the callback without its tests for a missing start time
Before_byTimeOnly(a, b) == a.start_time_utc < b.start_time_utc

\* the sort callback puts a before b: b has no start time, or a starts earlier
Before(a, b) ==
    HasStartTime(a) /\ (~HasStartTime(b) \/ a.start_time_utc < b.start_time_utc)

RECURSIVE Insert(_, _)
Insert(p, sorted) ==
    IF sorted = <<>> THEN <<p>>
    ELSE IF Before(p, Head(sorted)) THEN <<p>> \o sorted
    ELSE <<Head(sorted)>> \o Insert(p, Tail(sorted))

\* [...data].sort(...): a stable sort of a copy
RECURSIVE SortByStart(_)
SortByStart(data) ==
    IF data = <<>> THEN <<>>
    ELSE Insert(data[Len(data)], SortByStart(SubSeq(data, 1, Len(data) - 1)))

\* the order in which the service moves the status of a game
StatusRank(status) ==
    CASE status = "SCHEDULED" -> 0
      [] status = "LIVE" -> 1
      [] status = "FINAL" -> 2

\* the games the service holds for a day: two, the later one listed first, in
\* the status the service has them in when it answers
DayList(date, status) ==
    LET midnight == DaysFromCivil(date.s) * 1440 + BogotaOffsetMinutes
    IN  << Prediction("New York Knicks", "Chicago Bulls", "New York Knicks",
                      612, -160, 140, midnight + 1170, status, <<>>, <<>>),
           Prediction("Dallas Mavericks", "Utah Jazz", "Utah Jazz",
                      533, 105, -125, midnight + 1080, status, <<>>, <<>>) >>

\* how a request for a day can settle: the day's games as they are now, or a
\* timeout
DayResponses(date) ==
    { Fulfilled(PredictionsBody(Num(2), Arr(DayList(date, gameStatus)))),
      [kind |-> "timeout", data |-> Undefined] }

\* the days the user can tap: today's entry of the date strip and the
\* entries of the days before it
SelectableDays ==
    { dates(now, zone, selectedDate)[n].key :
        n \in 8 - MaxShift .. 8, zone \in DeviceZones }

\* one fetchData call suspended at `await getPredictions(selectedDate)`
Fetch(date) ==
    [date |-> date,
     request |-> Request("GET", "/api/predictions", PredictionsParams(date, "fanduel"), Undefined),
     response |-> NoResponse]

\* what fetchData writes once getPredictions has settled
Fetched(completion) ==
    IF completion.type = "return" /\ completion.value.t = "array"
    THEN SortByStart(completion.value.v) ELSE <<>>

\* n calls of fetchData for a day, made in one turn of the event loop; in mock
\* mode getPredictions has no suspension point and the calls finish in that turn
FetchData(n, date, clear, refresh) ==
    IF useMock
    THEN /\ allPredictions' = Fetched(Return(MOCK_PREDICTIONS))
         /\ loading' = FALSE
         /\ refreshing' = FALSE
         /\ applied' = date
         /\ fetches' = fetches
    ELSE /\ Len(fetches) + n <= MaxFetches
         /\ allPredictions' = IF clear THEN <<>> ELSE allPredictions
         /\ loading' = TRUE
         /\ refreshing' = (refresh \/ refreshing)
         /\ applied' = IF clear THEN Undefined ELSE applied
         /\ fetches' = fetches \o [k \in 1 .. n |-> Fetch(date)]

\* first render: useState(getTodayKey()), then the focus effect and the
\* effect on selectedDate each call fetchData
Mount ==
    /\ selectedDate = Undefined
    /\ selectedDate' = getTodayKey
    /\ FetchData(2, getTodayKey, TRUE, FALSE)
    /\ UNCHANGED <<useMock, now, calls, lastSetMock, lastFallback, service, sniper, calc>>

\* onSelectDate(item.key): setSelectedDate, then both effects run again
SelectDate(date) ==
    /\ selectedDate # Undefined
    /\ date \in SelectableDays
    /\ date # selectedDate
    /\ selectedDate' = date
    /\ FetchData(2, date, TRUE, FALSE)
    /\ UNCHANGED <<useMock, now, calls, lastSetMock, lastFallback, service, sniper, calc>>

\* the screen comes back into focus: the focus effect calls fetchData
Focus ==
    /\ selectedDate # Undefined
    /\ FetchData(1, selectedDate, FALSE, FALSE)
    /\ UNCHANGED <<useMock, now, calls, lastSetMock, lastFallback, selectedDate, service, sniper, calc>>

\* pull to refresh
HandleRefresh ==
    /\ selectedDate # Undefined
    /\ FetchData(1, selectedDate, FALSE, TRUE)
    /\ UNCHANGED <<useMock, now, calls, lastSetMock, lastFallback, selectedDate, service, sniper, calc>>

\* the games move on: SCHEDULED, then LIVE, then FINAL, never back
GameProgress ==
    /\ gameStatus # "FINAL"
    /\ gameStatus' = IF gameStatus = "SCHEDULED" THEN "LIVE" ELSE "FINAL"
    /\ UNCHANGED <<useMock, now, calls, lastSetMock, lastFallback, screen, sniper, calc>>

\* the request of fetch i settles: the service answers with the games as they
\* are at that moment, or the 60 s timeout fires
FetchSettles(i) ==
    /\ i \in 1 .. Len(fetches)
    /\ fetches[i].response = NoResponse
    /\ \E response \in DayResponses(fetches[i].date) :
          fetches' = [fetches EXCEPT ![i].response = response]
    /\ UNCHANGED <<useMock, now, calls, lastSetMock, lastFallback, selectedDate,
                   allPredictions, loading, refreshing, applied, service, sniper, calc>>

\* the event loop resumes fetch i, whose request has settled, and fetchData
\* runs to its end: setAllPredictions(sorted), whatever day is selected by now
\* and whichever fetch was made first
FetchResolves(i) ==
    /\ i \in 1 .. Len(fetches)
    /\ fetches[i].response # NoResponse
    /\ allPredictions' = Fetched(GetPredictionsAfterAwait(fetches[i].response))
    /\ applied' = fetches[i].date
    /\ loading' = FALSE
    /\ refreshing' = FALSE
    /\ fetches' = SubSeq(fetches, 1, i - 1) \o SubSeq(fetches, i + 1, Len(fetches))
    /\ UNCHANGED <<useMock, now, calls, lastSetMock, lastFallback, selectedDate, service, sniper, calc>>

\* time passes
Tick ==
    /\ now < StartMinute + MaxTicks * TickMinutes
    /\ now' = now + TickMinutes
    /\ UNCHANGED <<useMock, calls, lastSetMock, lastFallback, screen, service, sniper, calc>>

Next ==
    \/ \E enabled \in BOOLEAN : SetMockMode(enabled)
    \/ \E c \in CallIds, date \in DateArgs : GetPredictions(c, date)
    \/ \E c \in CallIds : CheckHealth(c)
    \/ \E c \in CallIds, bankroll \in Bankrolls : OptimizeStrategy(c, bankroll)
    \/ \E c \in CallIds : Respond(c)
    \/ \E c \in CallIds : Fail(c)
    \/ \E c \in CallIds : Timeout(c)
    \/ \E c \in CallIds : Resume(c)
    \/ \E c \in CallIds : Forget(c)
    \/ Tick

Spec == Init /\ [][Next]_vars

\* getPredictions and setMockMode alone, with a clock that stands still
LiveNext ==
    \/ \E enabled \in BOOLEAN : SetMockMode(enabled)
    \/ \E c \in CallIds, date \in DateArgs : GetPredictions(c, date)
    \/ \E c \in CallIds : Respond(c)
    \/ \E c \in CallIds : Fail(c)
    \/ \E c \in CallIds : Timeout(c)
    \/ \E c \in CallIds : Resume(c)
    \/ \E c \in CallIds : Forget(c)

\* the timer of a pending request fires and the event loop runs resumed functions
LiveSpec ==
    /\ Init
    /\ [][LiveNext]_vars
    /\ \A c \in CallIds : WF_vars(Timeout(c)) /\ WF_vars(Resume(c))

\* the home screen over a client whose requests are its own
HomeNext ==
    \/ Mount
    \/ \E date \in SelectableDays : SelectDate(date)
    \/ Focus
    \/ HandleRefresh
    \/ GameProgress
    \/ \E i \in 1 .. MaxFetches : FetchSettles(i)
    \/ \E i \in 1 .. MaxFetches : FetchResolves(i)

HomeSpec == Init /\ [][HomeNext]_vars

\* ========================================================================
\* Pure functions: Init draws the arguments, one action applies the function
\* ========================================================================
ApiIdle == UNCHANGED <<useMock, now, calls, lastSetMock, lastFallback, screen, service, sniper>>

\* ------------------------------------------------------------------------
\* HomeScreen.tsx getDateKeyFromISO and filteredPredictions (the version that
\* filters the fetched list by day)
\* ------------------------------------------------------------------------
\* date.toISOString(): 'YYYY-MM-DDTHH:mm:00.000Z' as <<y, m, d, h, min>>
toISOString(instant) ==
    LET day == FloorDiv(instant, 1440)
        ymd == CivilFromDays(day)
        minute == instant - day * 1440
    IN  Str(<<ymd[1], ymd[2], ymd[3], minute \div 60, minute % 60>>)

\* new Date(isoString): an Invalid Date when a part is out of range
NewDate(isoString) ==
    LET s == isoString.s
        ymd == <<s[1], s[2], s[3]>>
        ok == /\ Len(s) = 5
              /\ s[2] \in 1 .. 12 /\ s[3] \in 1 .. 31
              /\ CivilFromDays(DaysFromCivil(ymd)) = ymd
              /\ s[4] \in 0 .. 23 /\ s[5] \in 0 .. 59
    IN  IF ok THEN [valid |-> TRUE, time |-> DaysFromCivil(ymd) * 1440 + s[4] * 60 + s[5]]
        ELSE [valid |-> FALSE, time |-> 0]

\* a plausible slip: no test for an Invalid Date, whose formatting throws a
\* RangeError that nothing above the filter catches
getDateKeyFromISO_unguarded(isoString, deviceZone) ==
    IF ~Truthy(isoString) THEN Null
    ELSE IF ~NewDate(isoString).valid THEN [t |-> "RangeError"]
    ELSE DateString(NewDate(isoString).time, Bogota, deviceZone)

getDateKeyFromISO(isoString, deviceZone) ==
    IF ~Truthy(isoString) THEN Null
    ELSE IF ~NewDate(isoString).valid THEN Null
    ELSE DateString(NewDate(isoString).time, Bogota, deviceZone)

\* the callback of allPredictions.filter
ShownOn(p, selected, deviceZone) ==
    LET date == getDateKeyFromISO(p.start_time_utc, deviceZone)
    IN  IF ~Truthy(date) THEN TRUE ELSE date = selected

filteredPredictions(predictions, selected, deviceZone) ==
    SelectSeq(predictions, LAMBDA p : ShownOn(p, selected, deviceZone))

\* start_time_utc values that are missing or cannot be parsed: null, undefined,
\* '', month 13, hour 25
BadStarts ==
    {Null, Undefined, EmptyString, Str(<<2026, 13, 1, 0, 0>>), Str(<<2026, 1, 16, 25, 0>>)}

\* start_time_utc values the service sends: ISO strings around the load time
GoodStarts ==
    { toISOString(StartMinute + k * StartStep) : k \in -MaxStartSteps .. MaxStartSteps }

\* the keys of the days around the load time
NearbyKeys == { toLocaleDateString(StartMinute + k * 1440) : k \in -1 .. 1 }

FilterInputs ==
    [fn : {"filteredPredictions"}, start : BadStarts \cup GoodStarts,
     selected : NearbyKeys, zone : DeviceZones]

\* the list under the filter: the game in question after one played at load time
FilterList(start) ==
    << Prediction("Boston Celtics", "Miami Heat", "Boston Celtics",
                  721, -280, 230, toISOString(StartMinute), "FINAL", <<112>>, <<108>>),
       Prediction("New York Knicks", "Chicago Bulls", "New York Knicks",
                  612, -160, 140, start, "SCHEDULED", <<>>, <<>>) >>

FilterPredictions ==
    /\ inp.fn = "filteredPredictions" /\ out = NoOutput
    /\ out' = [fn |-> inp.fn,
                key |-> getDateKeyFromISO(inp.start, inp.zone),
                list |-> filteredPredictions(FilterList(inp.start), inp.selected, inp.zone)]
    /\ ApiIdle /\ UNCHANGED inp

\* ------------------------------------------------------------------------
\* DateStrip.tsx dates, for a clock reading, a device zone and a selected key
\* ------------------------------------------------------------------------
\* clock readings: around the load time and around the two clock changes
Todays ==
    { at + k * TodayStep :
        at \in {StartMinute, NewYorkAutumn.at, NewYorkSpring.at},
        k \in -MaxTodaySteps .. MaxTodaySteps }

\* the day number of an instant on the calendar of Bogota
BogotaDay(instant) == FloorDiv(LocalTime(Bogota, instant), 1440)

\* the selected key: a day from 8 days before the clock's day to 3 days after
StripInputs ==
    UNION { [fn : {"dates"}, today : {today}, zone : DeviceZones,
             selected : { Str(CivilFromDays(BogotaDay(today) + j)) : j \in -8 .. 3 }] :
            today \in Todays }

RenderDateStrip ==
    /\ inp.fn = "dates" /\ out = NoOutput
    /\ out' = [fn |-> inp.fn,
                dates |-> dates(inp.today, inp.zone, inp.selected),
                todayKey |-> toLocaleDateString(inp.today)]
    /\ ApiIdle /\ UNCHANGED inp

\* ------------------------------------------------------------------------
\* The day key of one instant computed on two devices
\* ------------------------------------------------------------------------
DayKeyInputs == [fn : {"dayKey"}, instant : Todays, zoneA : DeviceZones, zoneB : DeviceZones]

\* formatDateKey(date) and getDateKeyFromISO(date.toISOString()) on one device
DayKeys(instant, deviceZone) ==
    [strip |-> formatDateKey(instant, deviceZone),
     iso |-> getDateKeyFromISO(toISOString(instant), deviceZone)]

ComputeDayKeys ==
    /\ inp.fn = "dayKey" /\ out = NoOutput
    /\ out' = [fn |-> inp.fn,
                a |-> DayKeys(inp.instant, inp.zoneA),
                b |-> DayKeys(inp.instant, inp.zoneB)]
    /\ ApiIdle /\ UNCHANGED inp

\* ------------------------------------------------------------------------
\* JavaScript numbers as exact fractions num / den with den > 0, in lowest
\* terms (the rounding of binary floating point is left out)
\* ------------------------------------------------------------------------
Abs(n) == IF n < 0 THEN -n ELSE n

RECURSIVE GCD(_, _)
GCD(a, b) == IF b = 0 THEN a ELSE GCD(b, a % b)

Frac(n, d) ==
    LET g == GCD(Abs(n), Abs(d))
        sign == IF d < 0 THEN -1 ELSE 1
    IN  [num |-> sign * (n \div g), den |-> sign * (d \div g)]

Whole(n) == [num |-> n, den |-> 1]

\* a + b, over the least common denominator
Plus(a, b) ==
    LET g == GCD(a.den, b.den)
    IN  Frac(a.num * (b.den \div g) + b.num * (a.den \div g), (a.den \div g) * b.den)

Minus(a, b) == Plus(a, [num |-> -b.num, den |-> b.den])

\* a * b, cancelling across before multiplying
Times(a, b) ==
    LET g == GCD(Abs(a.num), b.den)
        h == GCD(Abs(b.num), a.den)
    IN  Frac((a.num \div g) * (b.num \div h), (a.den \div h) * (b.den \div g))

\* a / b for b # 0
Over(a, b) == Times(a, Frac(b.den, b.num))

Less(a, b) == a.num * b.den < b.num * a.den

\* Math.round: the nearest integer, a half rounded up
MathRound(a) == Whole(FloorDiv(2 * a.num + a.den, 2 * a.den))

\* ------------------------------------------------------------------------
\* ValueAnalysisCard.tsx getImpliedProb
\* ------------------------------------------------------------------------
\* a plausible slip: no special case for odds of 0
getImpliedProb_nozero(odds) ==
    IF odds < 0
    THEN Times(Over(Whole(-odds), Whole(-odds + 100)), Whole(100))
    ELSE Times(Over(Whole(100), Whole(odds + 100)), Whole(100))

getImpliedProb(odds) ==
    IF odds = 0 THEN Whole(0)
    ELSE IF odds < 0
    THEN Times(Over(Whole(-odds), Whole(-odds + 100)), Whole(100))
    ELSE Times(Over(Whole(100), Whole(odds + 100)), Whole(100))

\* American odds: every integer up to MaxOdds either way, 0 for no market
OddsValues == -MaxOdds .. MaxOdds

ImpliedInputs == [fn : {"getImpliedProb"}, odds : OddsValues]

ImpliedProbability ==
    /\ inp.fn = "getImpliedProb" /\ out = NoOutput
    /\ out' = [fn |-> inp.fn, value |-> getImpliedProb(inp.odds)]
    /\ ApiIdle /\ UNCHANGED inp

\* ------------------------------------------------------------------------
\* types/index.ts calculateExpectedValue
\* ------------------------------------------------------------------------
\* let decimalOdds, for nonzero odds
DecimalOdds(odds) ==
    IF odds > 0
    THEN Plus(Over(Whole(odds), Whole(100)), Whole(1))
    ELSE Plus(Over(Whole(100), Whole(Abs(odds))), Whole(1))

\* a plausible slip: the win taken as the whole payout, stake included
ExpectedValue_fullPayout(probability, odds) ==
    Minus(Times(Over(probability, Whole(100)), DecimalOdds(odds)),
          Minus(Whole(1), Over(probability, Whole(100))))

\* EV = (Probability * (Decimal Odds - 1)) - (1 - Probability), before rounding
ExpectedValue(probability, odds) ==
    Minus(Times(Over(probability, Whole(100)), Minus(DecimalOdds(odds), Whole(1))),
          Minus(Whole(1), Over(probability, Whole(100))))

\* a plausible slip: the result cut off after two decimals instead of rounded
calculateExpectedValue_floor(probability, odds) ==
    IF odds = 0 THEN Whole(0)
    ELSE LET hundredths == Times(ExpectedValue(probability, odds), Whole(100))
         IN  Over(Whole(FloorDiv(hundredths.num, hundredths.den)), Whole(100))

calculateExpectedValue(probability, odds) ==
    IF odds = 0 THEN Whole(0)
    ELSE Over(MathRound(Times(ExpectedValue(probability, odds), Whole(100))), Whole(100))

\* probabilities in percent, written in tenths: 0, ProbStep/10, ... up to 100
Probabilities == { Frac(k * ProbStep, 10) : k \in 0 .. (1000 \div ProbStep) }

ExpectedValueInputs ==
    [fn : {"calculateExpectedValue"}, probability : Probabilities, odds : OddsValues]

CalculateExpectedValue ==
    /\ inp.fn = "calculateExpectedValue" /\ out = NoOutput
    /\ out' = [fn |-> inp.fn, value |-> calculateExpectedValue(inp.probability, inp.odds)]
    /\ ApiIdle /\ UNCHANGED inp

\* ------------------------------------------------------------------------
\* utils/odds.ts americanToDecimal and formatOdds; a string is the tuple of
\* its characters
\* ------------------------------------------------------------------------
\* 100 / 0 in JavaScript
Infinity == [num |-> 1, den |-> 0]

americanToDecimal(american) ==
    IF american > 0
    THEN Plus(Over(Whole(american), Whole(100)), Whole(1))
    ELSE IF Abs(american) = 0 THEN Infinity
    ELSE Plus(Over(Whole(100), Whole(Abs(american))), Whole(1))

DigitChars == <<"0", "1", "2", "3", "4", "5", "6", "7", "8", "9">>

\* the decimal digits of a natural number
RECURSIVE NatToString(_)
NatToString(n) ==
    IF n < 10 THEN <<DigitChars[n + 1]>>
    ELSE NatToString(n \div 10) \o <<DigitChars[(n % 10) + 1]>>

\* `${n}` for an integer
NumberToString(n) == IF n < 0 THEN <<"-">> \o NatToString(-n) ELSE NatToString(n)

\* x.toFixed(2) for x >= 0: the integer n with n / 100 nearest to x, the larger
\* of two equally near, written with two digits after the point
toFixed2(x) ==
    IF x.den = 0 THEN <<"I", "n", "f", "i", "n", "i", "t", "y">>
    ELSE LET n == FloorDiv(200 * x.num + x.den, 2 * x.den)
         IN  NatToString(n \div 100) \o <<".">>
               \o <<DigitChars[((n \div 10) % 10) + 1], DigitChars[(n % 10) + 1]>>

\* a plausible slip: positive American odds written without the plus sign
formatOdds_nosign(odds, format) ==
    IF odds = 0 THEN <<"-">>
    ELSE IF format = "DECIMAL" THEN toFixed2(americanToDecimal(odds))
    ELSE NumberToString(odds)

formatOdds(odds, format) ==
    IF odds = 0 THEN <<"-">>
    ELSE IF format = "DECIMAL" THEN toFixed2(americanToDecimal(odds))
    ELSE IF odds > 0 THEN <<"+">> \o NumberToString(odds) ELSE NumberToString(odds)

FormatInputs == [fn : {"formatOdds"}, odds : OddsValues, format : {"AMERICAN", "DECIMAL"}]

FormatOdds ==
    /\ inp.fn = "formatOdds" /\ out = NoOutput
    /\ out' = [fn |-> inp.fn, text |-> formatOdds(inp.odds, inp.format)]
    /\ ApiIdle /\ UNCHANGED inp

\* ------------------------------------------------------------------------
\* ValueAnalysisCard.tsx: the edge of the predicted side and its badge
\* ------------------------------------------------------------------------
\* a plausible slip: an edge of exactly 2 counted as value
ValueAnalysis_atleast(homeTeam, awayTeam, homeProb, awayProb, homeOdds, awayOdds, predictedWinner) ==
    LET isHomeWinner == predictedWinner = homeTeam
        targetProb == IF isHomeWinner THEN homeProb ELSE awayProb
        targetOdds == IF isHomeWinner THEN homeOdds ELSE awayOdds
        edge == Minus(targetProb, getImpliedProb(targetOdds))
    IN  [targetTeam |-> IF isHomeWinner THEN homeTeam ELSE awayTeam,
         edge |-> edge, isValue |-> ~Less(edge, Whole(2))]

ValueAnalysis(homeTeam, awayTeam, homeProb, awayProb, homeOdds, awayOdds, predictedWinner) ==
    LET isHomeWinner == predictedWinner = homeTeam
        targetProb == IF isHomeWinner THEN homeProb ELSE awayProb
        targetOdds == IF isHomeWinner THEN homeOdds ELSE awayOdds
        edge == Minus(targetProb, getImpliedProb(targetOdds))
    IN  [targetTeam |-> IF isHomeWinner THEN homeTeam ELSE awayTeam,
         edge |-> edge, isValue |-> Less(Whole(2), edge)]

\* the badge the card renders
Badge(analysis) == IF analysis.isValue THEN "value_bet" ELSE "fair_value"

\* a game of two teams: the home side's probability and odds are drawn, the
\* away side has the remaining probability and the mirrored odds
ValueInputs ==
    [fn : {"ValueAnalysisCard"}, homeProb : Probabilities, homeOdds : OddsValues,
     predictedWinner : {"Boston Celtics", "Miami Heat"}]

RenderValueAnalysis ==
    /\ inp.fn = "ValueAnalysisCard" /\ out = NoOutput
    /\ LET analysis == ValueAnalysis("Boston Celtics", "Miami Heat",
                                     inp.homeProb, Minus(Whole(100), inp.homeProb),
                                     inp.homeOdds, -inp.homeOdds, inp.predictedWinner)
       IN  out' = [fn |-> inp.fn, targetTeam |-> analysis.targetTeam,
                   edge |-> analysis.edge, badge |-> Badge(analysis)]
    /\ ApiIdle /\ UNCHANGED inp

\* ------------------------------------------------------------------------
\* DetailsScreen.tsx getBetQuality
\* ------------------------------------------------------------------------
\* a >= b on fractions
AtLeast(a, b) == ~Less(a, b)

\* a plausible slip: the thresholds themselves fall in the lower tier
getBetQuality_strict(conf) ==
    IF Less(Whole(65), conf) THEN "excellent_bet"
    ELSE IF Less(Whole(55), conf) THEN "good_bet"
    ELSE "risky_bet"

getBetQuality(conf) ==
    IF AtLeast(conf, Whole(65)) THEN "excellent_bet"
    ELSE IF AtLeast(conf, Whole(55)) THEN "good_bet"
    ELSE "risky_bet"

\* confidences in percent, every tenth from 0 up
QualityInputs == [fn : {"getBetQuality"}, conf : { Frac(k, 10) : k \in 0 .. MaxConfidence }]

BetQuality ==
    /\ inp.fn = "getBetQuality" /\ out = NoOutput
    /\ out' = [fn |-> inp.fn, label |-> getBetQuality(inp.conf)]
    /\ ApiIdle /\ UNCHANGED inp

\* ------------------------------------------------------------------------
\* The divisions on the paths that convert odds: for each function the
\* arguments with which it reaches americanToDecimal and the divisors it uses
\* ------------------------------------------------------------------------
NoDivision == [reached |-> {}, divisors |-> {}]

\* americanToDecimal: american / 100, or 100 / Math.abs(american)
AmericanToDecimalPath(american) ==
    [reached |-> {american},
     divisors |-> IF american > 0 THEN {100} ELSE {Abs(american)}]

\* a plausible slip: formatOdds without its test for odds of 0
FormatOddsPath_nozero(odds, format) ==
    IF format = "DECIMAL" THEN AmericanToDecimalPath(odds) ELSE NoDivision

FormatOddsPath(odds, format) ==
    IF odds = 0 THEN NoDivision
    ELSE IF format = "DECIMAL" THEN AmericanToDecimalPath(odds)
    ELSE NoDivision

\* calculateExpectedValue: odds / 100 or 100 / Math.abs(odds), probability / 100
ExpectedValuePath(odds) ==
    IF odds = 0 THEN NoDivision
    ELSE [reached |-> {}, divisors |-> {IF odds > 0 THEN 100 ELSE Abs(odds), 100}]

\* getImpliedProb: -odds / (-odds + 100) or 100 / (odds + 100)
ImpliedProbPath(odds) ==
    IF odds = 0 THEN NoDivision
    ELSE [reached |-> {}, divisors |-> {IF odds < 0 THEN -odds + 100 ELSE odds + 100}]

PathInputs ==
    [fn : {"convertOdds"}, caller : {"calculateExpectedValue", "getImpliedProb"},
     odds : OddsValues, format : {"AMERICAN"}]
        \cup [fn : {"convertOdds"}, caller : {"formatOdds"},
              odds : OddsValues, format : {"AMERICAN", "DECIMAL"}]

ConvertOdds ==
    /\ inp.fn = "convertOdds" /\ out = NoOutput
    /\ out' = [fn |-> inp.fn,
                path |-> CASE inp.caller = "formatOdds" -> FormatOddsPath(inp.odds, inp.format)
                           [] inp.caller = "calculateExpectedValue" -> ExpectedValuePath(inp.odds)
                           [] OTHER -> ImpliedProbPath(inp.odds)]
    /\ ApiIdle /\ UNCHANGED inp

\* ------------------------------------------------------------------------
\* The result of a finished game, on the match card and on the details
\* screen.  An optional field of a prediction is <<>> when absent and <<v>>
\* when it holds v; is_correct is a JavaScript value.
\* ------------------------------------------------------------------------

\* prediction.status || 'SCHEDULED'
statusOf(prediction) ==
    IF prediction.status = <<>> THEN "SCHEDULED" ELSE prediction.status[1]

isFinal(prediction) == statusOf(prediction) = "FINAL"

\* score || 0
OrZero(score) == IF score = <<>> THEN 0 ELSE score[1]

\* MatchCard: the winner named by the service, else the home team if the game
\* is final and its score is the higher one, else the away team
actualWinner(prediction) ==
    IF prediction.actual_winner # <<>> THEN prediction.actual_winner
    ELSE IF isFinal(prediction)
            /\ OrZero(prediction.home_score) > OrZero(prediction.away_score)
         THEN <<prediction.home_team>>
         ELSE <<prediction.away_team>>

\* MatchCard: "true", "false" or "null"
isPredictionCorrect(prediction) ==
    IF prediction.is_correct # Undefined /\ prediction.is_correct # Null
    THEN IF prediction.is_correct = Num(1) THEN "true" ELSE "false"
    ELSE IF isFinal(prediction)
         THEN IF actualWinner(prediction) = <<prediction.predicted_winner>>
              THEN "true" ELSE "false"
         ELSE "null"

\* the badge on the right of the match card: the result of the prediction, or
\* the stake badge (high value or normal stake)
MatchCardBadge(prediction) ==
    IF isFinal(prediction) /\ isPredictionCorrect(prediction) # "null"
    THEN IF isPredictionCorrect(prediction) = "true"
         THEN "prediction_correct" ELSE "prediction_incorrect"
    ELSE "stake_badge"

\* DetailsScreen: the winner named by the service, else for a final game with
\* both scores the home team if its score is the higher one and the away team
\* if not, else nothing
derivedActualWinner(prediction) ==
    IF prediction.actual_winner # <<>> THEN prediction.actual_winner
    ELSE IF isFinal(prediction)
            /\ prediction.home_score # <<>> /\ prediction.away_score # <<>>
         THEN IF prediction.home_score[1] > prediction.away_score[1]
              THEN <<prediction.home_team>>
              ELSE <<prediction.away_team>>
         ELSE <<>>

\* the badge of the audit panel, "nothing" when the panel renders nothing
AIAudit(status, predictedWinner, winner) ==
    IF status # "FINAL" THEN "nothing"
    ELSE IF winner = <<predictedWinner>>
         THEN "prediction_correct" ELSE "prediction_incorrect"

\* DetailsScreen: {isFinal && <AIAudit ... />}
DetailsAudit(prediction) ==
    IF isFinal(prediction)
    THEN AIAudit(statusOf(prediction), prediction.predicted_winner,
                 derivedActualWinner(prediction))
    ELSE "nothing"

ResultInputs ==
    [fn : {"result"},
     home_team : {"Boston Celtics"}, away_team : {"Miami Heat"},
     predicted_winner : {"Boston Celtics", "Miami Heat"},
     status : { <<>>, <<"SCHEDULED">>, <<"LIVE">>, <<"FINAL">> },
     is_correct : { Undefined, Null, Num(0), Num(1), Num(2) },
     actual_winner : { <<>>, <<"Boston Celtics">>, <<"Miami Heat">> },
     home_score : { <<>> } \cup { <<n>> : n \in 0 .. MaxScore },
     away_score : { <<>> } \cup { <<n>> : n \in 0 .. MaxScore }]

\* one prediction rendered by the match card and by the details screen
ShowResult ==
    /\ inp.fn = "result" /\ out = NoOutput
    /\ out' = [fn |-> inp.fn, card |-> MatchCardBadge(inp), audit |-> DetailsAudit(inp)]
    /\ ApiIdle /\ UNCHANGED inp

\* ------------------------------------------------------------------------
\* The sort of a fetched batch
\* ------------------------------------------------------------------------

\* predictions of a batch: two that start together, an earlier one, two
\* without a start time
BatchPredictions ==
    { Prediction("New York Knicks", "Chicago Bulls", "New York Knicks",
                 612, -160, 140, StartMinute + 90, "SCHEDULED", <<>>, <<>>),
      Prediction("Los Angeles Lakers", "Golden State Warriors", "Los Angeles Lakers",
                 585, -145, 125, StartMinute + 90, "SCHEDULED", <<>>, <<>>),
      Prediction("Dallas Mavericks", "Utah Jazz", "Utah Jazz",
                 533, 105, -125, StartMinute - 30, "LIVE", <<20>>, <<24>>),
      Prediction("Boston Celtics", "Miami Heat", "Boston Celtics",
                 721, -280, 230, NoStartTime, "SCHEDULED", <<>>, <<>>),
      Prediction("Denver Nuggets", "Phoenix Suns", "Phoenix Suns",
                 548, 115, -135, NoStartTime, "SCHEDULED", <<>>, <<>>) }

SortInputs ==
    [fn : {"sort"},
     data : UNION { [1 .. n -> BatchPredictions] : n \in 0 .. MaxBatch }]

\* what [...data].sort(callback) can return.  The callback answers 1 both
\* ways for two predictions without a start time, and for such a callback the
\* order is the engine's choice: every answer that involves a start time is
\* consistent, so the predictions with one come first in their stable order,
\* and the others follow in any order.
SortOutcomes(data) ==
    LET sorted == SortByStart(data)
        k == Cardinality({ i \in 1 .. Len(data) : HasStartTime(data[i]) })
        n == Len(data) - k
    IN  { SubSeq(sorted, 1, k) \o [i \in 1 .. n |-> sorted[k + f[i]]] :
            f \in { g \in [1 .. n -> 1 .. n] :
                      \A i, j \in 1 .. n : g[i] = g[j] => i = j } }

\* const sorted = [...data].sort(...): data is the fetched list after the
\* statement, sorted the list handed to setAllPredictions
SortBatch ==
    /\ inp.fn = "sort" /\ out = NoOutput
    /\ \E sorted \in SortOutcomes(inp.data) :
          out' = [fn |-> inp.fn, data |-> inp.data, sorted |-> sorted]
    /\ ApiIdle /\ UNCHANGED inp

CalcInputs ==
    FilterInputs \cup StripInputs \cup DayKeyInputs \cup ImpliedInputs
        \cup ExpectedValueInputs \cup FormatInputs \cup ValueInputs
        \cup QualityInputs \cup PathInputs \cup ResultInputs \cup SortInputs

CalcInit == ApiInit /\ NoScreen /\ NoSniper /\ inp \in CalcInputs /\ out = NoOutput

CalcNext ==
    \/ FilterPredictions
    \/ RenderDateStrip
    \/ ComputeDayKeys
    \/ ImpliedProbability
    \/ CalculateExpectedValue
    \/ FormatOdds
    \/ RenderValueAnalysis
    \/ BetQuality
    \/ ConvertOdds
    \/ ShowResult
    \/ SortBatch

CalcSpec == CalcInit /\ [][CalcNext]_vars

\* ========================================================================
\* SettingsScreen.tsx SniperScreen: the strategy screen
\* ========================================================================
\* the characters typed into the bankroll field
BankrollChars == {"0", "5", "e", "-", "."}

\* the number of decimal digits of text from position i on
RECURSIVE DigitRun(_, _)
DigitRun(text, i) ==
    IF i <= Len(text) /\ \E k \in 1 .. 10 : DigitChars[k] = text[i]
    THEN 1 + DigitRun(text, i + 1) ELSE 0

\* the number a run of decimal digits denotes
RECURSIVE DecimalValue(_)
DecimalValue(digits) ==
    IF digits = <<>> THEN 0
    ELSE 10 * DecimalValue(SubSeq(digits, 1, Len(digits) - 1))
         + (CHOOSE k \in 0 .. 9 : DigitChars[k + 1] = digits[Len(digits)])

RECURSIVE LeadingZeros(_)
LeadingZeros(digits) ==
    IF digits # <<>> /\ Head(digits) = "0" THEN 1 + LeadingZeros(Tail(digits)) ELSE 0

RECURSIVE WithoutTrailingZeros(_)
WithoutTrailingZeros(digits) ==
    IF digits # <<>> /\ digits[Len(digits)] = "0"
    THEN WithoutTrailingZeros(SubSeq(digits, 1, Len(digits) - 1))
    ELSE digits

\* a Number: NaN, a zero, an infinity, or digits[1].digits[2]... * 10^exponent
\* with digits[1] not "0"
Float(class, negative, digits, exponent) ==
    [t |-> "number", class |-> class, negative |-> negative,
     digits |-> digits, exponent |-> exponent]

\* parseFloat(text): the longest prefix of the form [sign] digits [. digits]
\* [e [sign] digits] or [sign] . digits [e [sign] digits], NaN when there is
\* none; a value of 1.8 * 10^308 or more is Infinity and one below 2.4 * 10^-324
\* is 0 (decided here by the first digit, which is exact unless that digit is
\* 1 or 2 at the very limit).  Leading blanks and the word Infinity are not in
\* the typed alphabet.
parseFloat(text) ==
    LET signed == Len(text) >= 1 /\ text[1] \in {"-", "+"}
        negative == signed /\ text[1] = "-"
        first == IF signed THEN 2 ELSE 1
        nInt == DigitRun(text, first)
        dotAt == first + nInt
        hasDot == dotAt <= Len(text) /\ text[dotAt] = "."
        nFrac == IF hasDot THEN DigitRun(text, dotAt + 1) ELSE 0
        eAt == IF hasDot THEN dotAt + 1 + nFrac ELSE dotAt
        hasE == eAt <= Len(text) /\ text[eAt] \in {"e", "E"}
        eSigned == hasE /\ eAt + 1 <= Len(text) /\ text[eAt + 1] \in {"-", "+"}
        eFirst == eAt + 1 + (IF eSigned THEN 1 ELSE 0)
        nExp == IF hasE THEN DigitRun(text, eFirst) ELSE 0
        exponent == IF nExp = 0 THEN 0
                    ELSE (IF eSigned /\ text[eAt + 1] = "-" THEN -1 ELSE 1)
                         * DecimalValue(SubSeq(text, eFirst, eFirst + nExp - 1))
        digits == SubSeq(text, first, first + nInt - 1)
                    \o (IF hasDot THEN SubSeq(text, dotAt + 1, dotAt + nFrac) ELSE <<>>)
        lead == LeadingZeros(digits)
        magnitude == exponent + nInt - 1 - lead
        leading == DecimalValue(<<digits[lead + 1]>>)
    IN  IF nInt + nFrac = 0 THEN Float("NaN", FALSE, <<>>, 0)
        ELSE IF lead = Len(digits) THEN Float("zero", negative, <<>>, 0)
        ELSE IF magnitude > 308 \/ (magnitude = 308 /\ leading >= 2)
             THEN Float("Infinity", negative, <<>>, 0)
        ELSE IF magnitude < -324 \/ (magnitude = -324 /\ leading <= 2)
             THEN Float("zero", negative, <<>>, 0)
        ELSE Float("finite", negative,
                   WithoutTrailingZeros(SubSeq(digits, lead + 1, Len(digits))), magnitude)

\* if (isNaN(amount) || amount <= 0): NaN, a zero, or a negative Number
Rejected(amount) ==
    \/ amount.class = "NaN"
    \/ amount.class = "zero" \/ amount.negative

\* onChangeText={setBankroll}: a character typed at the end of the text.
\* The field can be edited while a call is out as well; the call has read the
\* text before and the edit touches nothing the call reads or writes, so the
\* edits are taken between the calls.
TypeChar(c) ==
    /\ optimization.pc = "idle"
    /\ Len(bankrollText) < MaxTextLen
    /\ bankrollText' = Append(bankrollText, c)
    /\ UNCHANGED <<useMock, now, calls, lastSetMock, lastFallback, screen, service,
                   sniperLoading, strategyData, optimization, lastAlert, calc>>

\* onChangeText={setBankroll}: the last character deleted
DeleteChar ==
    /\ optimization.pc = "idle"
    /\ bankrollText # <<>>
    /\ bankrollText' = SubSeq(bankrollText, 1, Len(bankrollText) - 1)
    /\ UNCHANGED <<useMock, now, calls, lastSetMock, lastFallback, screen, service,
                   sniperLoading, strategyData, optimization, lastAlert, calc>>

\* handleOptimize up to `await optimizeStrategy(amount)`; the button is
\* disabled while loading
HandleOptimize ==
    /\ ~sniperLoading
    /\ LET amount == parseFloat(bankrollText)
       IN  IF Rejected(amount)
           THEN /\ lastAlert' = "capital"
                /\ UNCHANGED <<sniperLoading, optimization>>
           ELSE /\ sniperLoading' = TRUE
                /\ optimization' = [pc |-> "awaiting", amount |-> amount,
                                    response |-> NoResponse]
                /\ UNCHANGED lastAlert
    /\ UNCHANGED <<useMock, now, calls, lastSetMock, lastFallback, screen, service,
                   bankrollText, strategyData, calc>>

\* the request of optimizeStrategy settles: a plan, or a failure
OptimizeSettles ==
    /\ optimization.pc = "awaiting" /\ optimization.response = NoResponse
    /\ \E response \in { Fulfilled(body) : body \in StrategyBodies } \cup Rejections :
          optimization' = [optimization EXCEPT !.response = response]
    /\ UNCHANGED <<useMock, now, calls, lastSetMock, lastFallback, screen, service,
                   bankrollText, sniperLoading, strategyData, lastAlert, calc>>

\* handleOptimize after the await: if (data) setStrategyData(data) else the
\* alert; catch; finally setLoading(false)
OptimizeResumes ==
    /\ optimization.pc = "awaiting" /\ optimization.response # NoResponse
    /\ LET completion == OptimizeStrategyAfterAwait(optimization.response)
           shown == completion.type = "return" /\ Truthy(completion.value)
       IN  /\ strategyData' = IF shown THEN completion.value ELSE strategyData
           /\ lastAlert' = IF completion.type # "return" THEN "error"
                            ELSE IF shown THEN lastAlert ELSE "info"
    /\ sniperLoading' = FALSE
    /\ optimization' = NoOptimization
    /\ UNCHANGED <<useMock, now, calls, lastSetMock, lastFallback, screen, service,
                   bankrollText, calc>>

SniperNext ==
    \/ \E c \in BankrollChars : TypeChar(c)
    \/ DeleteChar
    \/ HandleOptimize
    \/ OptimizeSettles
    \/ OptimizeResumes

SniperSpec == Init /\ [][SniperNext]_vars

TypeOK ==
    /\ useMock \in BOOLEAN
    /\ lastSetMock \in {"never", "true", "false"}
    /\ lastFallback.reason \in {"none", "mock", "empty", "timeout", "transport"}
    /\ \A c \in CallIds : calls[c].pc \in {"idle", "awaiting", "done"}
    /\ loading \in BOOLEAN /\ refreshing \in BOOLEAN
    /\ Len(fetches) <= MaxFetches

\* ========================================================================
\* Properties
\* ========================================================================
PredictionFields ==
    {"home_team", "away_team", "predicted_winner", "winner_confidence", "home_odds",
     "away_odds", "start_time_utc", "status", "home_score", "away_score"}

IsPredictionList(v) ==
    /\ v.t = "array"
    /\ \A i \in 1 .. Len(v.v) : DOMAIN v.v[i] = PredictionFields

\* lists a and b are equal element for element
SameList(a, b) ==
    /\ a.t = "array" /\ b.t = "array"
    /\ Len(a.v) = Len(b.v)
    /\ \A i \in 1 .. Len(a.v) : a.v[i] = b.v[i]

\* C1: getPredictions never throws or rejects: whatever the outbound call did
\* (a list, an empty list, a timeout, a transport failure, a body without
\* predictions) and whatever the mock-mode flag, the call is fulfilled with a
\* list of predictions.
C1_NeverRejects ==
    \A c \in CallIds :
        Returned(c) => calls[c].settled = "fulfilled" /\ IsPredictionList(calls[c].result)

\* a call returned after a JSON null body; an earlier one returned in mock mode
C1_Witness ==
    \E c \in CallIds :
        /\ Returned(c) /\ calls[c].response = Fulfilled(Null)
        /\ calls[c].settled = "fulfilled"
        /\ lastFallback.reason = "mock"

\* C2: a successful answer with an empty batch (count 0, no predictions) makes
\* getPredictions return the 3-item sample list with statuses SCHEDULED, FINAL,
\* LIVE, never an empty list.
C2_EmptyGivesFallback ==
    \A c \in CallIds :
        (Returned(c) /\ AnsweredList(c) /\ BodyList(c) = <<>> /\ BodyCount(c) = 0)
        => /\ calls[c].result = MOCK_PREDICTIONS
           /\ Len(calls[c].result.v) = 3
           /\ [i \in 1 .. 3 |-> calls[c].result.v[i].status] = <<"SCHEDULED", "FINAL", "LIVE">>

C2_Witness ==
    \E c \in CallIds :
        /\ Returned(c) /\ AnsweredList(c) /\ BodyList(c) = <<>> /\ BodyCount(c) = 0
        /\ Len(calls[c].result.v) = 3

\* C3: any two getPredictions calls that end in the sample list (mock mode,
\* empty result, timeout or transport failure) return lists that are equal
\* element for element, whether the two calls overlap or one follows the other.
C3_SameFallback ==
    \A c \in CallIds :
        (Returned(c) /\ FallbackReason(c) # "none")
        => /\ lastFallback.reason # "none" => SameList(calls[c].result, lastFallback.result)
           /\ \A d \in CallIds :
                 (Returned(d) /\ FallbackReason(d) # "none")
                 => SameList(calls[c].result, calls[d].result)

\* a call timed out after the clock moved on; an earlier call had ended in the
\* sample list for another reason
C3_Witness ==
    \E c \in CallIds :
        /\ Returned(c) /\ FallbackReason(c) = "timeout"
        /\ lastFallback.reason \in {"mock", "empty"}
        /\ now > StartMinute

\* C4: a successful answer with a non-empty batch is returned verbatim: same
\* elements, same order, nothing added, dropped or replaced.
C4_Verbatim ==
    \A c \in CallIds :
        (Returned(c) /\ AnsweredList(c) /\ BodyList(c) # <<>> /\ BodyCount(c) = Len(BodyList(c)))
        => calls[c].result = Arr(BodyList(c))

C4_Witness ==
    \E c \in CallIds :
        /\ Returned(c) /\ AnsweredList(c) /\ Len(BodyList(c)) = 2 /\ BodyCount(c) = 2
        /\ calls[c].result.v = BodyList(c)

\* C5: while mock mode is enabled getPredictions issues no outbound request and
\* returns the sample list; after setMockMode(false) (and before any
\* setMockMode at all) the next getPredictions call issues a request.
C5_MockBypassesNetwork ==
    [][\A c \in CallIds :
          /\ (calls[c].pc = "idle" /\ calls'[c].op = "getPredictions") =>
                /\ lastSetMock = "true" =>
                      /\ calls'[c].requests = <<>>
                      /\ calls'[c].pc = "done"
                      /\ calls'[c].settled = "fulfilled"
                      /\ calls'[c].result = MOCK_PREDICTIONS
                /\ lastSetMock # "true" =>
                      /\ Len(calls'[c].requests) = 1
                      /\ calls'[c].pc = "awaiting"
          /\ (calls[c].pc # "idle" /\ calls'[c].pc # "idle") =>
                calls'[c].requests = calls[c].requests]_vars

\* an earlier call returned in mock mode without a request; mock mode was
\* then switched off and this call issued a request
C5_Witness ==
    \E c \in CallIds :
        /\ lastFallback.reason = "mock"
        /\ lastSetMock = "false"
        /\ calls[c].op = "getPredictions" /\ Len(calls[c].requests) = 1

\* C6: a response whose count differs from the length of its predictions list
\* is treated as a transport failure: getPredictions returns the sample list
\* and not the list the response carries.
C6_MalformedGivesFallback ==
    \A c \in CallIds :
        (Returned(c) /\ AnsweredList(c) /\ BodyCount(c) # Len(BodyList(c)))
        => calls[c].result = MOCK_PREDICTIONS

\* C7 as stated: a getPredictions call without a day key (omitted or null)
\* sends a request whose date parameter is today's day key in America/Bogota
\* at the time of the call.
C7_DateDefaultsToToday ==
    [][\A c \in CallIds, date \in {Undefined, Null} :
          (GetPredictions(c, date) /\ calls'[c].requests # <<>>)
          => calls'[c].requests[1].params.date = getTodayKey]_vars

\* C7 as amended: a getPredictions call without a day key (omitted, null or
\* the empty string) sends, unless mock mode answers it, one request that
\* carries no date parameter at all, only the sportsbook; a call with a day
\* key sends exactly that key.
C7_NoDateParameter ==
    [][\A c \in CallIds, date \in DateArgs :
          (GetPredictions(c, date) /\ ~useMock)
          => calls'[c].requests =
                << [method |-> "GET", url |-> "/api/predictions", data |-> Undefined,
                    params |-> [t |-> "object", sportsbook |-> "fanduel",
                                date |-> IF date \in {Undefined, Null, EmptyString}
                                         THEN Undefined ELSE date]] >>]_vars

\* a request without a date parameter is out
C7_Witness ==
    \E c \in CallIds :
        /\ calls[c].op = "getPredictions"
        /\ Len(calls[c].requests) = 1
        /\ calls[c].requests[1].params.date = Undefined
        /\ calls[c].requests[1].params.sportsbook = "fanduel"

\* C8: checkHealth never throws: on any failure of the /health probe it is
\* fulfilled with null, and it is fulfilled with the response body only when
\* the probe succeeded.
C8_HealthNullOnFailure ==
    \A c \in CallIds :
        (calls[c].op = "checkHealth" /\ calls[c].pc = "done")
        => /\ calls[c].settled = "fulfilled"
           /\ calls[c].response.kind # "ok" => calls[c].result = Null
           /\ calls[c].response.kind = "ok" => calls[c].result = calls[c].response.data

\* a probe answered with an error status has returned null
C8_Witness ==
    \E c \in CallIds :
        /\ calls[c].op = "checkHealth" /\ calls[c].pc = "done"
        /\ calls[c].response.kind = "status" /\ calls[c].result = Null

\* C9: optimizeStrategy is fulfilled with null on any failure and never with a
\* plan made locally: every non-null result is the body the service returned,
\* and the call posts its one request whatever the mock-mode flag.
C9_StrategyNullOnFailure ==
    \A c \in CallIds :
        calls[c].op = "optimizeStrategy"
        => /\ Len(calls[c].requests) = 1
           /\ calls[c].requests[1].method = "POST"
           /\ calls[c].requests[1].url = "/api/strategy/optimize"
           /\ calls[c].requests[1].data.bankroll \in Bankrolls
           /\ calls[c].pc = "done" =>
                 /\ calls[c].settled = "fulfilled"
                 /\ calls[c].response.kind # "ok" => calls[c].result = Null
                 /\ calls[c].result # Null =>
                       /\ calls[c].response.kind = "ok"
                       /\ calls[c].result = calls[c].response.data

\* mock mode was on for an earlier getPredictions call and has stayed on; an
\* optimizeStrategy call then failed and returned null
C9_Witness ==
    \E c \in CallIds :
        /\ lastFallback.reason = "mock"
        /\ lastSetMock = "true" /\ useMock
        /\ calls[c].op = "optimizeStrategy" /\ calls[c].pc = "done"
        /\ calls[c].response.kind = "network" /\ calls[c].result = Null

\* the state of one getPredictions request
Phase(c) ==
    CASE calls[c].pc = "idle" -> "IDLE"
      [] calls[c].pc = "done" -> "RESOLVED"
      [] calls[c].response.kind = "none" -> "REQUESTING"
      [] calls[c].response.kind = "timeout" -> "TIMED_OUT"
      [] calls[c].response.kind \in {"network", "status"} -> "NETWORK_ERROR"
      [] AnsweredList(c) /\ BodyList(c) # <<>> -> "SUCCEEDED"
      [] calls[c].response.data.t \in {"null", "undefined"} -> "NETWORK_ERROR"
      [] OTHER -> "EMPTY"

Outcomes == {"SUCCEEDED", "TIMED_OUT", "NETWORK_ERROR", "EMPTY"}

PhaseSteps ==
    { <<"IDLE", "REQUESTING">> }
    \cup { <<"REQUESTING", o>> : o \in Outcomes }
    \cup { <<o, "RESOLVED">> : o \in Outcomes }

\* C10: every getPredictions call that is not answered by mock mode goes
\* IDLE -> REQUESTING -> one of SUCCEEDED, TIMED_OUT, NETWORK_ERROR, EMPTY ->
\* RESOLVED, with exactly one outbound request and no retry, and a call that
\* is REQUESTING is eventually RESOLVED even when the service never answers.
C10_RequestLifecycle ==
    /\ [][\A c \in CallIds :
            /\ (calls'[c].op = "getPredictions" /\ calls'[c].requests # <<>>)
               => /\ Len(calls'[c].requests) = 1
                  /\ Phase(c)' # Phase(c) => <<Phase(c), Phase(c)'>> \in PhaseSteps
            /\ (calls[c].op = "getPredictions" /\ Phase(c) = "REQUESTING")
               => calls'[c].op = "getPredictions"]_vars
    /\ \A c \in CallIds :
          (calls[c].op = "getPredictions" /\ Phase(c) = "REQUESTING")
          ~> (calls[c].op = "getPredictions" /\ Phase(c) = "RESOLVED")

\* a call went through TIMED_OUT and is resolved
C10_Witness ==
    \E c \in CallIds :
        /\ Returned(c) /\ Len(calls[c].requests) = 1
        /\ calls[c].response.kind = "timeout" /\ Phase(c) = "RESOLVED"

\* C11: the mock-mode flag is written only by setMockMode and only read before
\* the request is sent: a setMockMode call made while a getPredictions request
\* is in flight changes neither whether the outbound call was made nor what
\* the call returns, which is decided by the response alone.
C11_FlagReadOnceBeforeAwait ==
    [][/\ useMock' # useMock =>
            /\ lastSetMock' = (IF useMock' THEN "true" ELSE "false")
            /\ calls' = calls
       /\ \A c \in CallIds :
            (calls[c].op = "getPredictions" /\ calls[c].pc = "awaiting")
            => /\ calls'[c].requests = calls[c].requests
               /\ calls'[c].pc = "done" =>
                     calls'[c].result =
                        IF AnsweredList(c) /\ BodyList(c) # <<>>
                        THEN Arr(BodyList(c)) ELSE MOCK_PREDICTIONS]_vars

\* mock mode was switched on while a request was out: the request has been
\* sent, the service's list has arrived, and the call has not resumed yet
C11_Witness ==
    \E c \in CallIds :
        /\ calls[c].op = "getPredictions" /\ calls[c].pc = "awaiting"
        /\ Len(calls[c].requests) = 1
        /\ useMock /\ lastSetMock = "true"
        /\ AnsweredList(c) /\ BodyList(c) # <<>>

\* C12: a response that arrives for a day that is no longer selected is
\* discarded: whenever no fetch of the home screen is outstanding, the list on
\* display was written by a fetch made for the currently selected day.
C12_StaleResponseDiscarded ==
    (selectedDate # Undefined /\ fetches = <<>>) => applied = selectedDate

\* C13 as stated: a start time that is missing or cannot be parsed gives the
\* key null, and the prediction is then shown for no selected day.
C13_UnknownKeyNeverShown ==
    (out.fn = "filteredPredictions" /\ inp.start \in BadStarts)
    => /\ out.key = Null
       /\ \A i \in 1 .. Len(out.list) : out.list[i].start_time_utc # inp.start

\* C13 amended: a start time that is missing or cannot be parsed gives the key
\* null, never an exception, and the prediction is then shown for every
\* selected day; a prediction with a key is shown exactly on the day of its key.
C13_UnknownKeyAlwaysShown ==
    out.fn = "filteredPredictions"
    => LET shown == \E i \in 1 .. Len(out.list) : out.list[i].start_time_utc = inp.start
       IN  /\ inp.start \in BadStarts => out.key = Null /\ shown
           /\ inp.start \in GoodStarts =>
                 /\ out.key \in NearbyKeys
                 /\ shown <=> out.key = inp.selected

\* a game whose start time has month 13 is on the list of a selected day
C13_Witness ==
    /\ out.fn = "filteredPredictions"
    /\ inp.start = Str(<<2026, 13, 1, 0, 0>>)
    /\ out.key = Null
    /\ Len(out.list) = 2

\* C14: the date strip has exactly 10 entries; their keys are the 10
\* consecutive, pairwise distinct days of the Bogota calendar from 7 days
\* before today to 2 days after, today's key among them, whatever the zone of
\* the device and whatever key is selected.
C14_TenConsecutiveDays ==
    out.fn = "dates"
    => /\ Len(out.dates) = 10
       /\ \A n \in 1 .. 10 :
            out.dates[n].key = Str(CivilFromDays(BogotaDay(inp.today) + n - 8))
       /\ \A m, n \in 1 .. 10 : m # n => out.dates[m].key # out.dates[n].key
       /\ \E n \in 1 .. 10 : out.dates[n].key = out.todayKey

\* C15: exactly one entry of the date strip is active when the selected key
\* is one of the 10 days from 7 before today to 2 after, and none otherwise.
C15_OneActiveInWindow ==
    out.fn = "dates"
    => LET window == { Str(CivilFromDays(BogotaDay(inp.today) + i)) : i \in -7 .. 2 }
           active == { n \in 1 .. Len(out.dates) : out.dates[n].active }
       IN  Cardinality(active) = IF inp.selected \in window THEN 1 ELSE 0

C17_ImpliedProbabilityRange ==
    out.fn = "getImpliedProb"
    => IF inp.odds = 0
       THEN out.value.num = 0
       ELSE 0 < out.value.num /\ out.value.num < 100 * out.value.den

\* the implied probability of -145 is 59.18...%, that is 2900/49
C17_Witness ==
    /\ out.fn = "getImpliedProb"
    /\ inp.odds = -145
    /\ out.value = [num |-> 2900, den |-> 49]

\* C18: the expected value is 0 for odds 0 whatever the probability; for
\* nonzero odds it is p/100 * (d - 1) - (1 - p/100) rounded to two decimals,
\* with d = odds/100 + 1 for positive and 100/|odds| + 1 for negative odds.
\* With t = 10 p, the value times 100 is (t * odds - 100 * (1000 - t)) / 1000
\* for positive odds and (100 * t - (1000 - t) * |odds|) / (10 * |odds|) for
\* negative odds; rounded means a whole number of hundredths at most half a
\* hundredth away.
C18_ExpectedValue ==
    out.fn = "calculateExpectedValue"
    => LET t == (inp.probability.num * 10) \div inp.probability.den
           o == inp.odds
           n == IF o > 0 THEN t * o - 100 * (1000 - t) ELSE 100 * t - (1000 - t) * (-o)
           d == IF o > 0 THEN 1000 ELSE 10 * (-o)
           r == (out.value.num * 100) \div out.value.den
       IN  IF o = 0
           THEN out.value.num = 0
           ELSE /\ 100 % out.value.den = 0
                /\ 2 * Abs(r * d - n) <= d

\* 60% at odds -145: EV = 0.6 * 100/145 - 0.4 = 0.01379..., rounded 0.01
C18_Witness ==
    /\ out.fn = "calculateExpectedValue"
    /\ inp.probability = Whole(60) /\ inp.odds = -145
    /\ out.value = Frac(1, 100)

\* the number a string of decimal digits denotes
DigitValue(c) == CHOOSE k \in 0 .. 9 : DigitChars[k + 1] = c

IsDigits(text) == text # <<>> /\ \A i \in 1 .. Len(text) : \E k \in 1 .. 10 : DigitChars[k] = text[i]

RECURSIVE ParseNat(_)
ParseNat(text) ==
    IF text = <<>> THEN 0
    ELSE 10 * ParseNat(SubSeq(text, 1, Len(text) - 1)) + DigitValue(text[Len(text)])

\* C19: formatOdds writes odds 0 as "-" in both formats; in the American
\* format positive odds get a leading "+" and negative odds are written as
\* they are; in the decimal format the text is the decimal odds
\* (odds/100 + 1, or 100/|odds| + 1) with exactly two digits after the point.
C19_FormatOdds ==
    out.fn = "formatOdds"
    => LET text == out.text
           o == inp.odds
           point == Len(text) - 2
           whole == SubSeq(text, 1, point - 1)
           cents == SubSeq(text, point + 1, Len(text))
           n == IF o > 0 THEN o + 100 ELSE 10000 + 100 * (-o)
           d == IF o > 0 THEN 1 ELSE -o
       IN  CASE o = 0 -> text = <<"-">>
             [] o # 0 /\ inp.format = "AMERICAN" ->
                  /\ Head(text) = (IF o > 0 THEN "+" ELSE "-")
                  /\ IsDigits(Tail(text))
                  /\ ParseNat(Tail(text)) = Abs(o)
             [] OTHER ->
                  /\ Len(text) >= 4 /\ text[point] = "."
                  /\ IsDigits(whole) /\ IsDigits(cents)
                  /\ 2 * Abs((100 * ParseNat(whole) + ParseNat(cents)) * d - n) <= d

\* formatOdds(150, 'DECIMAL') is "2.50"
C19_Witness ==
    /\ out.fn = "formatOdds"
    /\ inp.odds = 150 /\ inp.format = "DECIMAL"
    /\ out.text = <<"2", ".", "5", "0">>

\* C20: the card tags the predicted side "value" exactly when its model
\* probability minus the implied probability of its odds is strictly greater
\* than 2.0, and "fair" when the difference is 2.0 or less.  With the
\* probability t/10 and the implied probability n/d (100|o|/(|o|+100) for
\* negative odds, 10000/(o+100) for positive odds, 0 for odds 0) the
\* difference exceeds 2 exactly when t * d - 10 * n > 20 * d.
C20_ValueIffEdgeAboveTwo ==
    out.fn = "ValueAnalysisCard"
    => LET home == inp.predictedWinner = "Boston Celtics"
           p == IF home THEN inp.homeProb ELSE Minus(Whole(100), inp.homeProb)
           t == (p.num * 10) \div p.den
           o == IF home THEN inp.homeOdds ELSE -inp.homeOdds
           n == IF o < 0 THEN 100 * (-o) ELSE IF o > 0 THEN 10000 ELSE 0
           d == IF o < 0 THEN 100 - o ELSE IF o > 0 THEN o + 100 ELSE 1
       IN  /\ out.badge \in {"value_bet", "fair_value"}
           /\ out.badge = "value_bet" <=> t * d - 10 * n > 20 * d

\* 52% against odds +100 (implied 50%): the edge is exactly 2 and the tag is fair
C20_Witness ==
    /\ out.fn = "ValueAnalysisCard"
    /\ inp.predictedWinner = "Boston Celtics"
    /\ inp.homeProb = Whole(52) /\ inp.homeOdds = 100
    /\ out.edge = Whole(2)
    /\ out.badge = "fair_value"

\* C21: odds of 0 mean that no market is available: a predicted side whose
\* odds are 0 is never tagged a value bet, whatever its model probability.
C21_NoMarketNeverValue ==
    (out.fn = "ValueAnalysisCard" /\ inp.homeOdds = 0) => out.badge # "value_bet"

\* C22: every confidence gets exactly one tier: excellent from 65 up, good
\* from 55 up to but not including 65, risky below 55; 65 and 55 themselves
\* belong to the upper tier.  The confidence is t tenths of a percent point.
C22_BetQualityTiers ==
    out.fn = "getBetQuality"
    => LET t == (inp.conf.num * 10) \div inp.conf.den
       IN  /\ out.label \in {"excellent_bet", "good_bet", "risky_bet"}
           /\ out.label = "excellent_bet" <=> t >= 650
           /\ out.label = "good_bet" <=> (550 <= t /\ t < 650)
           /\ out.label = "risky_bet" <=> t < 550

\* a confidence of exactly 65 is excellent
C22_Witness ==
    /\ out.fn = "getBetQuality"
    /\ inp.conf = Whole(65)
    /\ out.label = "excellent_bet"

\* C23: no path that converts odds divides by zero: formatOdds,
\* calculateExpectedValue and the implied-probability helper leave before any
\* division when the odds are 0, and americanToDecimal is never reached with 0.
C23_NoDivisionByZero ==
    out.fn = "convertOdds"
    => /\ 0 \notin out.path.divisors
       /\ 0 \notin out.path.reached
       /\ inp.odds = 0 => out.path = NoDivision
       /\ (inp.odds # 0 /\ inp.caller = "formatOdds" /\ inp.format = "DECIMAL")
            => out.path.reached = {inp.odds}

\* formatOdds in the decimal format with odds 0 leaves without dividing, and
\* with odds -200 it divides by 200
C23_Witness ==
    /\ out.fn = "convertOdds"
    /\ inp.caller = "formatOdds" /\ inp.format = "DECIMAL"
    /\ \/ inp.odds = 0 /\ out.path = NoDivision
       \/ inp.odds = -200 /\ out.path.divisors = {200}

\* the same game in two batches: same teams, same start
SameGame(p, q) ==
    /\ p.home_team = q.home_team /\ p.away_team = q.away_team
    /\ p.start_time_utc = q.start_time_utc

\* C24: the status of the service's games only moves SCHEDULED, LIVE, FINAL,
\* and so does the status on display: whenever the list on display is
\* replaced, a game that is in the old list and in the new one has in the new
\* list the status it had or a later one.
C24_StatusNeverMovesBack ==
    [][\A i \in 1 .. Len(allPredictions), j \in 1 .. Len(allPredictions') :
          SameGame(allPredictions[i], allPredictions'[j])
          => StatusRank(allPredictions'[j].status) >= StatusRank(allPredictions[i].status)]_vars

\* the side with the higher score, a missing score counting as 0; <<>> when
\* neither side is ahead
HigherScoreSide(prediction) ==
    IF OrZero(prediction.home_score) > OrZero(prediction.away_score)
    THEN <<prediction.home_team>>
    ELSE IF OrZero(prediction.away_score) > OrZero(prediction.home_score)
         THEN <<prediction.away_team>>
         ELSE <<>>

\* C25: the match card shows no result for a game that is not final; for a
\* final game is_correct decides when present (1 correct, anything else
\* incorrect), and when absent the prediction is correct exactly if the
\* predicted winner is the actual winner: actual_winner when present, else the
\* side with the higher score.
C25_MatchCardVerdict ==
    out.fn = "result" =>
        out.card =
            IF ~isFinal(inp) THEN "stake_badge"
            ELSE IF inp.is_correct \notin {Undefined, Null}
                 THEN IF inp.is_correct = Num(1)
                      THEN "prediction_correct" ELSE "prediction_incorrect"
                 ELSE IF <<inp.predicted_winner>> =
                            (IF inp.actual_winner # <<>> THEN inp.actual_winner
                             ELSE HigherScoreSide(inp))
                      THEN "prediction_correct" ELSE "prediction_incorrect"

\* C26: for a final game the match card and the audit panel of the details
\* screen show the same result.
C26_SameVerdictOnBothScreens ==
    (out.fn = "result" /\ isFinal(inp)) => out.card = out.audit

\* C27: the day of the month shown on an entry of the date strip is the day of
\* the entry's own key, on every device and at every time of day.
C27_DayNumberIsDayOfKey ==
    out.fn = "dates" =>
        \A n \in 1 .. 10 : out.dates[n].dayNumber = out.dates[n].key.s[3]

\* how often a prediction occurs in a list
Occurrences(p, list) == Cardinality({ i \in 1 .. Len(list) : list[i] = p })

C29_PositiveValueMeansEdge ==
    (out.fn = "calculateExpectedValue" /\ inp.odds # 0 /\ Less(Whole(0), out.value))
    => Less(getImpliedProb(inp.odds), inp.probability)

\* 50% at +120: EV = 0.5 * 1.2 - 0.5 = 0.10, implied probability 45.45...%
C29_Witness ==
    /\ out.fn = "calculateExpectedValue"
    /\ inp.probability = Whole(50) /\ inp.odds = 120
    /\ out.value = Frac(10, 100)
    /\ getImpliedProb(inp.odds) = Frac(500, 11)

\* C30: handleOptimize calls optimizeStrategy only with a finite amount above
\* 0; the plan on display changes only in the step in which a call returns a
\* plan, and then to that plan; and when a call returns, the loading flag is
\* false.
C30_HandleOptimize ==
    [][/\ optimization'.pc = "awaiting"
          => optimization'.amount.class = "finite" /\ ~optimization'.amount.negative
       /\ strategyData' # strategyData
          => /\ optimization.pc = "awaiting" /\ optimization.response # NoResponse
             /\ OptimizeStrategyAfterAwait(optimization.response).value # Null
             /\ strategyData' = OptimizeStrategyAfterAwait(optimization.response).value
       /\ (optimization.pc = "awaiting" /\ optimization'.pc = "idle")
          => ~sniperLoading']_vars

====
